---- MODULE Spec2Model ----
(***************************************************************************)
(* haikunator: Haikunator::haikunate() over its configuration and its      *)
(* random source.                                                          *)
(*                                                                         *)
(* A Rust &str / String is its UTF-8 encoding: a sequence of bytes.  A     *)
(* char is a Unicode scalar value (a natural number).  str::chars()        *)
(* decodes, String::push encodes.                                          *)
(*                                                                         *)
(* The random source is a deterministic generator: its seed fixes an       *)
(* output stream of raw words, its state is the position in that stream.   *)
(* The stream is revealed as it is read, so every sequence of raw words is *)
(* explored, and an identically seeded generator re-reads the same words.  *)
(***************************************************************************)
EXTENDS Integers, Sequences, FiniteSets

VARIABLES adjectives, nouns, delimiter, token_length, token_hex, token_chars,
          rng, stream, calls, prev, instance, changes, panicked

vars == <<adjectives, nouns, delimiter, token_length, token_hex, token_chars,
          rng, stream, calls, prev, instance, changes, panicked>>

----------------------------------------------------------------------------
(* Bounds of the model *)

\* raw words of the random source are 0 .. RawMax-1 (2^64 in the program)
RawMax == 2
\* raw words one seed's stream is read for
MaxDraws == 5
\* haikunate() calls on one instance
MaxCalls == 2
\* assignments the owner makes to delimiter
MaxChanges == 1
\* largest token_length a configuration is built with
MaxTokenLength == 2
\* raw words read under the default configuration
MaxDefaultDraws == 6

----------------------------------------------------------------------------
(* Strings *)

Max(a, b) == IF a >= b THEN a ELSE b

\* char::encode_utf8, as String::push uses it
Utf8(cp) ==
  IF cp < 128 THEN <<cp>>
  ELSE IF cp < 2048 THEN <<192 + (cp \div 64), 128 + (cp % 64)>>
  ELSE IF cp < 65536
    THEN <<224 + (cp \div 4096), 128 + ((cp \div 64) % 64), 128 + (cp % 64)>>
  ELSE <<240 + (cp \div 262144), 128 + ((cp \div 4096) % 64),
         128 + ((cp \div 64) % 64), 128 + (cp % 64)>>

\* a string literal of the given chars
RECURSIVE Str(_)
Str(cps) == IF cps = <<>> THEN <<>> ELSE Utf8(Head(cps)) \o Str(Tail(cps))

\* width of the UTF-8 sequence a lead byte starts
Utf8Width(b) == IF b < 128 THEN 1 ELSE IF b < 224 THEN 2 ELSE IF b < 240 THEN 3 ELSE 4

\* the scalar value of one UTF-8 sequence
Utf8Decode(bs) ==
  IF Len(bs) = 1 THEN bs[1]
  ELSE IF Len(bs) = 2 THEN (bs[1] - 192) * 64 + (bs[2] - 128)
  ELSE IF Len(bs) = 3
    THEN (bs[1] - 224) * 4096 + (bs[2] - 128) * 64 + (bs[3] - 128)
  ELSE (bs[1] - 240) * 262144 + (bs[2] - 128) * 4096 + (bs[3] - 128) * 64
       + (bs[4] - 128)

\* str::chars(): the chars of a string, in order
RECURSIVE Chars(_)
Chars(s) ==
  IF s = <<>> THEN <<>>
  ELSE LET w == Utf8Width(s[1])
       IN <<Utf8Decode(SubSeq(s, 1, w))>> \o Chars(SubSeq(s, w + 1, Len(s)))

\* tokens.chars().count()
CharsCount(s) == Len(Chars(s))

\* tokens.chars().nth(index): <<c>> for Some(c), <<>> for None
CharsNth(s, index) ==
  IF index >= 0 /\ index < Len(Chars(s)) THEN <<Chars(s)[index + 1]>> ELSE <<>>

\* s starts with d
StartsWith(s, d) == Len(d) <= Len(s) /\ SubSeq(s, 1, Len(d)) = d

\* d occurs in s
Contains(s, d) ==
  \E i \in 1..(Len(s) - Len(d) + 1) : SubSeq(s, i, i + Len(d) - 1) = d

----------------------------------------------------------------------------
(* Data *)

\* "-", "@", "yy" and the empty string
Dash == <<45>>
At == <<64>>
Yy == <<121, 121>>
Delimiters == {Dash, At, Yy, <<>>}
\* the delimiters the owner assigns to a built Haikunator
OwnerDelimiters == {Dash, At}

\* "0123456789abcdef"
HexDigits == <<48, 49, 50, 51, 52, 53, 54, 55, 56, 57, 97, 98, 99, 100, 101, 102>>
\* "0123456789"
DecimalDigits == <<48, 49, 50, 51, 52, 53, 54, 55, 56, 57>>
\* the chars of "0123456789忠犬ハチ公"
UnicodeAlphabetChars ==
  <<48, 49, 50, 51, 52, 53, 54, 55, 56, 57, 24544, 29356, 12495, 12481, 20844>>
UnicodeAlphabet == Str(UnicodeAlphabetChars)

\* word lists a Haikunator is built with: none, ["fly", "bub"], ["", "fly"]
AdjectiveLists ==
  { <<>>, << <<102, 108, 121>>, <<98, 117, 98>> >>, << <<>>, <<102, 108, 121>> >> }
\* none, ["bat", "s-d"]
NounLists == { <<>>, << <<98, 97, 116>>, <<115, 45, 100>> >> }
\* token alphabets a Haikunator is built with: "" and "z忠"
TokenAlphabetChars == { <<>>, <<122, 24544>> }
TokenAlphabets == { Str(cps) : cps \in TokenAlphabetChars }

\* the built-in word lists (stand-ins: "aged", "bold" and "art", "bar")
DEFAULT_ADJECTIVES == << <<97, 103, 101, 100>>, <<98, 111, 108, 100>> >>
DEFAULT_NOUNS == << <<97, 114, 116>>, <<98, 97, 114>> >>

\* HaikunatorParams::default(), with token_hex set
DefaultParamsHex ==
  [adjectives |-> DEFAULT_ADJECTIVES, nouns |-> DEFAULT_NOUNS, delimiter |-> Dash,
   token_length |-> 4, token_hex |-> TRUE, token_chars |-> DecimalDigits]
\* HaikunatorParams::default()
DefaultParams ==
  [adjectives |-> DEFAULT_ADJECTIVES, nouns |-> DEFAULT_NOUNS, delimiter |-> Dash,
   token_length |-> 4, token_hex |-> FALSE, token_chars |-> DecimalDigits]

\* the state of a freshly seeded random source: nothing of its stream read
SeededRng == 0

----------------------------------------------------------------------------
(* haikunate() *)

\* the alphabet is token_chars even with token_hex set
TokensIgnoringHex == token_chars
\* let tokens = if self.token_hex { "0123456789abcdef" } else { self.token_chars }
Tokens == IF token_hex THEN HexDigits ELSE token_chars

\* the rng is put back to its seeded state at every call
BorrowRngReseeded == SeededRng
\* let mut rng = self.rng.borrow_mut(): the state the last call left
BorrowRng == rng

\* a word is drawn from an empty list too
WordGuardNone(list) == TRUE
\* if !self.adjectives.is_empty(), if !self.nouns.is_empty()
WordGuard(list) == list # <<>>

\* the alphabet is counted in bytes
TokenCountBytes(tokens) == Len(tokens)
\* let count = tokens.chars().count()
TokenCount(tokens) == CharsCount(tokens)

\* the range asked is one short: 0..n-1
GenRangeShort(raw, n) == IF n <= 1 THEN -1 ELSE (raw * (n - 1)) \div RawMax
\* rng.gen_range(0..n) on the raw word read: -1 stands for the panic on an
\* empty range, otherwise the high word of raw * n
GenRange(raw, n) == IF n <= 0 THEN -1 ELSE (raw * n) \div RawMax

\* the word is drawn from a copy of the rng: the state is left as it was
PickWordPeek(list, strm, pos) ==
  IF WordGuard(list)
  THEN LET n == Len(list)
           i == GenRange(strm[pos + 1], n)
           ok == i >= 0 /\ i < Len(list)
       IN [seg |-> IF ok THEN list[i + 1] ELSE <<>>, pos |-> pos,
           ranges |-> <<n>>, picks |-> <<i>>, panic |-> ~ok]
  ELSE [seg |-> <<>>, pos |-> pos, ranges |-> <<>>, picks |-> <<>>,
        panic |-> FALSE]
\* self.adjectives[rng.gen_range(0..self.adjectives.len())] behind its guard:
\* the segment, the rng state left, the range asked, the index drawn, and
\* whether the range or the index panicked
PickWord(list, strm, pos) ==
  IF WordGuard(list)
  THEN LET n == Len(list)
           i == GenRange(strm[pos + 1], n)
           ok == i >= 0 /\ i < Len(list)
       IN [seg |-> IF ok THEN list[i + 1] ELSE <<>>, pos |-> pos + 1,
           ranges |-> <<n>>, picks |-> <<i>>, panic |-> ~ok]
  ELSE [seg |-> <<>>, pos |-> pos, ranges |-> <<>>, picks |-> <<>>,
        panic |-> FALSE]

\* for _ in 0..self.token_length { index = gen_range(0..count);
\*                                 token.push(tokens.chars().nth(index).unwrap()) }
RECURSIVE TokenLoop(_, _, _, _, _)
TokenLoop(tokens, count, left, strm, acc) ==
  IF left = 0 \/ acc.panic THEN acc
  ELSE LET index == GenRange(strm[acc.pos + 1], count)
           nth == CharsNth(tokens, index)
           ok == nth # <<>>
       IN TokenLoop(tokens, count, left - 1, strm,
            [seg |-> IF ok THEN acc.seg \o Utf8(nth[1]) ELSE acc.seg,
             pos |-> acc.pos + 1,
             ranges |-> Append(acc.ranges, count),
             picks |-> Append(acc.picks, index),
             panic |-> ~ok])

\* the token segment: the loop runs only if count > 0
BuildToken(tokens, strm, pos) ==
  LET count == TokenCount(tokens)
      start == [seg |-> <<>>, pos |-> pos, ranges |-> <<>>, picks |-> <<>>,
                panic |-> FALSE]
  IN IF count > 0 THEN TokenLoop(tokens, count, token_length, strm, start)
     ELSE start

\* no segment is dropped
RetainAll(parts) == parts
\* parts.retain(|s| !s.is_empty())
Retain(parts) == SelectSeq(parts, LAMBDA s : s # <<>>)

\* the segments are always joined by "-"
RECURSIVE JoinDash(_, _)
JoinDash(parts, sep) ==
  IF parts = <<>> THEN <<>>
  ELSE IF Len(parts) = 1 THEN parts[1]
  ELSE parts[1] \o Dash \o JoinDash(Tail(parts), sep)
\* parts.join(sep)
RECURSIVE Join(_, _)
Join(parts, sep) ==
  IF parts = <<>> THEN <<>>
  ELSE IF Len(parts) = 1 THEN parts[1]
  ELSE parts[1] \o sep \o Join(Tail(parts), sep)

\* the gen_range calls one haikunate() makes
NumDraws ==
  (IF WordGuard(adjectives) THEN 1 ELSE 0) + (IF WordGuard(nouns) THEN 1 ELSE 0)
  + (IF TokenCount(Tokens) > 0 THEN token_length ELSE 0)

\* one haikunate() from rng state pos on the stream strm: what it returns and
\* what it did to get there
Call(strm, pos) ==
  LET tokens == Tokens
      adj == PickWord(adjectives, strm, pos)
      noun == IF adj.panic THEN [adj EXCEPT !.seg = <<>>, !.ranges = <<>>, !.picks = <<>>]
              ELSE PickWord(nouns, strm, adj.pos)
      tok == IF noun.panic THEN [noun EXCEPT !.seg = <<>>, !.ranges = <<>>, !.picks = <<>>]
             ELSE BuildToken(tokens, strm, noun.pos)
      parts == Retain(<<adj.seg, noun.seg, tok.seg>>)
  IN [adjective |-> adj.seg, noun |-> noun.seg, token |-> tok.seg,
      parts |-> parts,
      name |-> IF tok.panic THEN <<>> ELSE Join(parts, delimiter),
      delimiter |-> delimiter, tokens |-> tokens,
      rng_before |-> pos, rng_after |-> tok.pos,
      ranges |-> adj.ranges \o noun.ranges \o tok.ranges,
      picks |-> adj.picks \o noun.picks \o tok.picks,
      token_picks |-> tok.picks,
      panic |-> tok.panic]

\* pub fn haikunate(&self) -> String
Haikunate(limit) ==
  /\ ~panicked
  /\ Len(calls) < MaxCalls
  /\ LET pos == BorrowRng
         need == NumDraws
     IN /\ pos + need <= limit
        /\ \E ext \in [1..Max(0, pos + need - Len(stream)) -> 0..(RawMax - 1)] :
             LET strm == stream \o ext
                 r == Call(strm, pos)
             IN /\ stream' = strm
                /\ rng' = r.rng_after
                /\ calls' = Append(calls, r)
                /\ panicked' = r.panic
  /\ UNCHANGED <<adjectives, nouns, delimiter, token_length, token_hex,
                 token_chars, prev, instance, changes>>

\* the rng stored is not in its seeded state: what was read of the stream
\* before stays read
NewRngKept(seeded) == seeded + Len(stream)
\* Haikunator::new: rng: RefCell::new(params.rng)
NewRng(seeded) == seeded

\* a second Haikunator is built with the configuration of the first and an
\* identically seeded rng; the calls of the first are kept for comparison
Reseed ==
  /\ ~panicked
  /\ instance = 1
  /\ calls # <<>>
  /\ rng' = NewRng(SeededRng)
  /\ prev' = calls
  /\ calls' = <<>>
  /\ instance' = 2
  /\ UNCHANGED <<adjectives, nouns, delimiter, token_length, token_hex,
                 token_chars, stream, changes, panicked>>

\* the owner assigns the public field: h.delimiter = "@"
SetDelimiter ==
  /\ ~panicked
  /\ changes < MaxChanges
  /\ \E d \in OwnerDelimiters \ {delimiter} : delimiter' = d
  /\ changes' = changes + 1
  /\ UNCHANGED <<adjectives, nouns, token_length, token_hex, token_chars,
                 rng, stream, calls, prev, instance, panicked>>

\* Haikunator::new(params) for the parameters p
New(p) ==
  /\ adjectives = p.adjectives
  /\ nouns = p.nouns
  /\ delimiter = p.delimiter
  /\ token_length = p.token_length
  /\ token_hex = p.token_hex
  /\ token_chars = p.token_chars
  /\ stream = <<>>
  /\ rng = NewRng(SeededRng)
  /\ calls = <<>>
  /\ prev = <<>>
  /\ instance = 1
  /\ changes = 0
  /\ panicked = FALSE

Params ==
  [adjectives : AdjectiveLists, nouns : NounLists, delimiter : Delimiters,
   token_length : 0..MaxTokenLength, token_hex : BOOLEAN,
   token_chars : TokenAlphabets]

Init == \E p \in Params : New(p)

Next == Haikunate(MaxDraws)

Spec == Init /\ [][Next]_vars

\* the owner's side: the delimiter is assigned between calls, and the
\* Haikunator is built again from the same seed
OwnerParams ==
  [adjectives : AdjectiveLists, nouns : NounLists, delimiter : {Dash},
   token_length : 0..MaxTokenLength, token_hex : {FALSE},
   token_chars : TokenAlphabets \ {<<>>}]

InitOwner == \E p \in OwnerParams : New(p)

NextOwner == Haikunate(MaxDraws) \/ Reseed \/ SetDelimiter

SpecOwner == InitOwner /\ [][NextOwner]_vars

\* Haikunator::default() and its calls
InitDefault == New(DefaultParams)

NextDefault == Haikunate(MaxDefaultDraws) \/ Reseed

SpecDefault == InitDefault /\ [][NextDefault]_vars

----------------------------------------------------------------------------
(* Vocabulary of the properties *)

Range(seq) == { seq[i] : i \in 1..Len(seq) }

\* every call made so far, on this instance and on the one before it
AllCalls == Range(calls) \cup Range(prev)

EndsWith(s, d) ==
  Len(d) <= Len(s) /\ SubSeq(s, Len(s) - Len(d) + 1, Len(s)) = d

\* s.split(d) for a non-empty d
RECURSIVE Split(_, _)
Split(s, d) ==
  IF ~Contains(s, d) THEN <<s>>
  ELSE LET i == CHOOSE k \in 1..Len(s) :
                  /\ SubSeq(s, k, k + Len(d) - 1) = d
                  /\ \A j \in 1..(k - 1) : SubSeq(s, j, j + Len(d) - 1) # d
       IN <<SubSeq(s, 1, i - 1)>> \o Split(SubSeq(s, i + Len(d), Len(s)), d)

\* how many of the three segments are not empty
NonEmptyCount(a, n, t) ==
  (IF a # <<>> THEN 1 ELSE 0) + (IF n # <<>> THEN 1 ELSE 0)
  + (IF t # <<>> THEN 1 ELSE 0)

\* the three segments in order, a delimiter between two that are kept
ExpectedName(a, n, t, d) ==
  a \o (IF a # <<>> /\ (n # <<>> \/ t # <<>>) THEN d ELSE <<>>)
    \o n \o (IF n # <<>> /\ t # <<>> THEN d ELSE <<>>) \o t

\* no segment of the call holds the delimiter
DelimiterFree(c) ==
  /\ ~Contains(c.adjective, c.delimiter)
  /\ ~Contains(c.noun, c.delimiter)
  /\ ~Contains(c.token, c.delimiter)

\* the delimiter of the call is one char
OneCharDelimiter(c) == Len(Chars(c.delimiter)) = 1

\* the alphabets of the model as chars, and the chars of a string among them
KnownAlphabetChars ==
  TokenAlphabetChars \cup {HexDigits, DecimalDigits, UnicodeAlphabetChars}
AlphabetChars(tokens) == CHOOSE cps \in KnownAlphabetChars : Str(cps) = tokens

----------------------------------------------------------------------------
(* C1 *)

\* C1 as stated: every name is its segments in the order adjective, noun,
\* token with the empty ones dropped and delimiter between the others, the
\* delimiter standing neither first nor last nor twice in a row, and with
\* token_length = 0 and both word lists non-empty it is
\* adjective + delimiter + noun
C1_AsStated ==
  \A c \in AllCalls :
    /\ c.name = ExpectedName(c.adjective, c.noun, c.token, c.delimiter)
    /\ c.delimiter # <<>> =>
         /\ ~StartsWith(c.name, c.delimiter)
         /\ ~EndsWith(c.name, c.delimiter)
         /\ ~Contains(c.name, c.delimiter \o c.delimiter)
    /\ (token_length = 0 /\ adjectives # <<>> /\ nouns # <<>>)
         => c.name = c.adjective \o c.delimiter \o c.noun

\* C1, amended: every name is its segments in the order adjective, noun, token
\* with the empty ones dropped and delimiter between the others: k kept
\* segments get Max(k - 1, 0) delimiters, no segment gives the empty name, and
\* a delimiter of one char that no segment holds stands neither first nor
\* last nor twice in a row; with token_length = 0 the name is
\* adjective + delimiter + noun when the words drawn are both non-empty
C1_JoinsKeptSegments ==
  \A c \in AllCalls :
    LET k == NonEmptyCount(c.adjective, c.noun, c.token)
    IN /\ ~c.panic
       /\ c.name = ExpectedName(c.adjective, c.noun, c.token, c.delimiter)
       /\ Len(c.name) = Len(c.adjective) + Len(c.noun) + Len(c.token)
                          + Max(k - 1, 0) * Len(c.delimiter)
       /\ k = 0 => c.name = <<>>
       /\ (OneCharDelimiter(c) /\ DelimiterFree(c)) =>
            /\ ~StartsWith(c.name, c.delimiter)
            /\ ~EndsWith(c.name, c.delimiter)
            /\ ~Contains(c.name, c.delimiter \o c.delimiter)
            /\ Len(Split(c.name, c.delimiter)) = Max(k, 1)
       /\ (token_length = 0 /\ c.adjective # <<>> /\ c.noun # <<>>)
            => c.name = c.adjective \o c.delimiter \o c.noun

\* a call with token_length = 0 that drew two non-empty words
C1_Witness ==
  \E c \in AllCalls :
    /\ token_length = 0 /\ c.adjective # <<>> /\ c.noun # <<>> /\ c.token = <<>>
    /\ c.delimiter = Dash
    /\ c.name = c.adjective \o Dash \o c.noun

----------------------------------------------------------------------------
(* C2 *)

\* C2: haikunate() never panics: every range asked of the rng is 0..n with
\* n > 0, every index drawn lies in its range and reads inside the collection,
\* and with no adjectives, no nouns and token_length = 0 every call returns
\* the empty string
C2_NeverPanics ==
  /\ ~panicked
  /\ \A c \in AllCalls :
       /\ ~c.panic
       /\ Len(c.picks) = Len(c.ranges)
       /\ \A i \in 1..Len(c.ranges) :
            c.ranges[i] > 0 /\ c.picks[i] >= 0 /\ c.picks[i] < c.ranges[i]
       /\ (adjectives = <<>> /\ nouns = <<>> /\ token_length = 0)
            => (c.name = <<>> /\ c.ranges = <<>>)

\* two calls in a row with nothing to draw from
C2_Witness ==
  /\ adjectives = <<>> /\ nouns = <<>> /\ token_length = 0
  /\ Len(calls) = MaxCalls
  /\ \A i \in 1..Len(calls) : calls[i].name = <<>>

----------------------------------------------------------------------------
(* C3 *)

\* C3: the token is empty when the alphabet has no char or token_length = 0;
\* otherwise it is token_length chars, each the char at a drawn position below
\* count of the alphabet, count and position counting chars and not bytes
\* ("0123456789忠犬ハチ公" counts 15)
C3_TokenOfChars ==
  /\ TokenCount(UnicodeAlphabet) = Len(UnicodeAlphabetChars)
  /\ \A c \in AllCalls :
       LET cps == AlphabetChars(c.tokens)
       IN /\ ~c.panic
          /\ (Len(cps) = 0 \/ token_length = 0) => c.token = <<>>
          /\ (Len(cps) > 0 /\ token_length > 0) =>
               /\ Len(c.token_picks) = token_length
               /\ \A i \in 1..token_length :
                    c.token_picks[i] >= 0 /\ c.token_picks[i] < Len(cps)
               /\ c.token = Str([i \in 1..token_length |-> cps[c.token_picks[i] + 1]])
               /\ Len(Chars(c.token)) = token_length
               /\ Range(Chars(c.token)) \subseteq Range(cps)

\* a token of two chars that holds the three-byte char of "z忠"
C3_Witness ==
  \E c \in AllCalls :
    /\ ~token_hex /\ token_length = 2
    /\ Len(Chars(c.token)) = 2
    /\ 24544 \in Range(Chars(c.token))
    /\ Len(c.token) > 2

----------------------------------------------------------------------------
(* C4 *)

\* C4: with token_hex the token is token_length characters of
\* "0123456789abcdef" whatever token_chars is; without it the alphabet is
\* token_chars itself
C4_HexOverridesTokenChars ==
  \A c \in AllCalls :
    /\ token_hex =>
         /\ c.tokens = HexDigits
         /\ Len(c.token) = token_length
         /\ Len(Chars(c.token)) = token_length
         /\ Range(c.token) \subseteq Range(HexDigits)
    /\ ~token_hex =>
         /\ c.tokens = token_chars
         /\ Range(Chars(c.token)) \subseteq Range(Chars(token_chars))

\* a hex token of two characters drawn with token_chars empty
C4_Witness ==
  \E c \in AllCalls :
    /\ token_hex /\ token_chars = <<>> /\ token_length = 2
    /\ Len(c.token) = 2
    /\ c.token[1] # c.token[2]

----------------------------------------------------------------------------
(* C5 *)

\* how often byte b stands in s
RECURSIVE CountByte(_, _)
CountByte(s, b) ==
  IF s = <<>> THEN 0
  ELSE (IF Head(s) = b THEN 1 ELSE 0) + CountByte(Tail(s), b)

\* C5: the default Haikunator has delimiter "-", token_length 4, token_hex
\* false and token_chars "0123456789", and each of its names is
\* <adjective>-<noun>-<four decimal digits>: three segments, two "-"
C5_DefaultForm ==
  /\ delimiter = Dash /\ token_length = 4 /\ ~token_hex
  /\ token_chars = DecimalDigits
  /\ \A c \in AllCalls :
       /\ c.adjective \in Range(DEFAULT_ADJECTIVES)
       /\ c.noun \in Range(DEFAULT_NOUNS)
       /\ c.name = c.adjective \o Dash \o c.noun \o Dash \o c.token
       /\ Split(c.name, Dash) = <<c.adjective, c.noun, c.token>>
       /\ CountByte(c.name, 45) = 2
       /\ Len(c.token) = 4
       /\ Range(c.token) \subseteq 48..57

\* a default name whose token holds two different digits
C5_Witness ==
  \E c \in Range(calls) :
    /\ Len(c.token) = 4 /\ c.token[1] # c.token[4]
    /\ Len(Split(c.name, Dash)) = 3

----------------------------------------------------------------------------
(* C6 *)

\* both word lists are non-empty and no word holds the delimiter
C6_Applies(c) ==
  /\ adjectives # <<>> /\ nouns # <<>>
  /\ \A w \in Range(adjectives) \cup Range(nouns) : ~Contains(w, c.delimiter)

\* every position of the list is the index some raw word gives
AllReachable(list) ==
  \A k \in 0..(Len(list) - 1) :
    \E raw \in 0..(RawMax - 1) : GenRange(raw, Len(list)) = k

\* C6 as stated: with both lists non-empty and no word holding the delimiter,
\* the first delimiter-separated segment of a name is an adjective and the
\* second a noun
C6_AsStated ==
  \A c \in AllCalls :
    C6_Applies(c) =>
      LET segs == Split(c.name, c.delimiter)
      IN /\ Len(segs) >= 2
         /\ segs[1] \in Range(adjectives)
         /\ segs[2] \in Range(nouns)

\* C6, amended: with both lists non-empty, a delimiter of one char and no
\* word empty or holding it, the first delimiter-separated segment of a name
\* is the adjective
\* and the second the noun; the adjective is adjectives[i] and the noun
\* nouns[j] for the indices i and j drawn, each inside its list (also when a
\* word is empty or holds the delimiter), and every position of either list
\* is drawn by some raw word
C6_WordsFromLists ==
  /\ AllReachable(adjectives) /\ AllReachable(nouns)
  /\ \A c \in AllCalls :
       (adjectives # <<>> /\ nouns # <<>>) =>
         /\ ~c.panic
         /\ Len(c.picks) >= 2
         /\ c.picks[1] \in 0..(Len(adjectives) - 1)
         /\ c.picks[2] \in 0..(Len(nouns) - 1)
         /\ c.adjective = adjectives[c.picks[1] + 1]
         /\ c.noun = nouns[c.picks[2] + 1]
         /\ (/\ C6_Applies(c) /\ OneCharDelimiter(c)
             /\ <<>> \notin Range(adjectives) \cup Range(nouns)) =>
              LET segs == Split(c.name, c.delimiter)
              IN /\ Len(segs) >= 2
                 /\ segs[1] = c.adjective /\ segs[1] \in Range(adjectives)
                 /\ segs[2] = c.noun /\ segs[2] \in Range(nouns)

\* two names of one instance, split by "@", whose adjectives are the two of
\* the list and whose nouns are the two of the list
C6_Witness ==
  /\ Len(calls) = 2
  /\ C6_Applies(calls[1]) /\ C6_Applies(calls[2])
  /\ <<>> \notin Range(adjectives)
  /\ calls[1].delimiter = At
  /\ Split(calls[1].name, At)[1] = adjectives[1]
  /\ Split(calls[2].name, At)[1] = adjectives[2]
  /\ Split(calls[1].name, At)[2] = nouns[2]
  /\ Split(calls[2].name, At)[2] = nouns[1]

----------------------------------------------------------------------------
(* C7 *)

\* C7 as stated: a name differs from the name the call before it returned
C7_AsStated ==
  \A i \in 1..(Len(calls) - 1) : calls[i + 1].name # calls[i].name

\* C7, amended: the rng is not reseeded between two consecutive calls - the
\* second starts in the state the first left - and, the delimiter being
\* one char, the same for both and in no segment, the two names differ
\* exactly when the kept segments differ; names of equal segments are equal
C7_DiffersWithSegments ==
  \A i \in 1..(Len(calls) - 1) :
    LET a == calls[i]
        b == calls[i + 1]
    IN /\ b.rng_before = a.rng_after
       /\ (a.delimiter = b.delimiter /\ a.parts = b.parts) => a.name = b.name
       /\ (/\ a.delimiter = b.delimiter /\ OneCharDelimiter(a)
           /\ DelimiterFree(a) /\ DelimiterFree(b)
           /\ a.parts # b.parts) => a.name # b.name

\* two consecutive calls, the second continuing the stream, of different names
C7_Witness ==
  /\ Len(calls) = 2
  /\ calls[1].rng_after > calls[1].rng_before
  /\ calls[2].rng_before = calls[1].rng_after
  /\ calls[1].delimiter = calls[2].delimiter
  /\ DelimiterFree(calls[1]) /\ DelimiterFree(calls[2])
  /\ calls[1].name # calls[2].name

----------------------------------------------------------------------------
(* C8 *)

\* C8: a Haikunator of equal configuration and identically seeded rng returns
\* on its n-th call the name the first returned on its n-th call, and leaves
\* its rng in the state the first left it in
C8_SameSeedSameNames ==
  /\ (instance = 2 /\ calls = <<>>) => rng = SeededRng
  /\ \A n \in 1..Len(calls) :
       n <= Len(prev) =>
         /\ calls[n].rng_before = prev[n].rng_before
         /\ calls[n].rng_after = prev[n].rng_after
         /\ calls[n].parts = prev[n].parts
         /\ calls[n].delimiter = prev[n].delimiter => calls[n].name = prev[n].name

\* the second instance has repeated two different names of the first, drawing
\* for each
C8_Witness ==
  /\ instance = 2 /\ Len(calls) = 2 /\ Len(prev) = 2
  /\ \A n \in 1..2 :
       /\ calls[n].delimiter = prev[n].delimiter
       /\ calls[n].name = prev[n].name
       /\ calls[n].rng_after > calls[n].rng_before
  /\ calls[1].name # calls[2].name

----------------------------------------------------------------------------
(* C9 *)

\* a step of haikunate(): it joins with the delimiter the owner last set and
\* leaves every field of the configuration as it was
C9_Step ==
  Len(calls') = Len(calls) + 1 =>
    LET c == calls'[Len(calls')]
    IN /\ c.delimiter = delimiter
       /\ c.name = ExpectedName(c.adjective, c.noun, c.token, delimiter)
       /\ UNCHANGED <<adjectives, nouns, delimiter, token_length, token_hex,
                      token_chars>>

\* the same draws under another delimiter gave the same segments, joined by
\* the delimiter of the call
C9_Joined ==
  \A n \in 1..Len(calls) :
    (n <= Len(prev) /\ calls[n].rng_before = prev[n].rng_before) =>
      /\ calls[n].adjective = prev[n].adjective
      /\ calls[n].noun = prev[n].noun
      /\ calls[n].token = prev[n].token
      /\ calls[n].name = ExpectedName(prev[n].adjective, prev[n].noun,
                                      prev[n].token, calls[n].delimiter)

\* C9: after the owner changes delimiter, the next name is joined with the new
\* delimiter and is otherwise the same - the same draws give the same
\* adjective, noun and token - and haikunate() itself modifies no field of
\* the configuration
C9_DelimiterOnlyJoins == [](C9_Joined) /\ [][C9_Step]_vars

\* the second instance, its delimiter changed from "-" to "@", has returned
\* the three segments of the first joined by "@"
C9_Witness ==
  /\ instance = 2 /\ calls # <<>> /\ prev # <<>>
  /\ prev[1].delimiter = Dash /\ calls[1].delimiter = At
  /\ Len(calls[1].parts) = 3 /\ calls[1].parts = prev[1].parts
  /\ calls[1].name # prev[1].name
  /\ calls[1].name = calls[1].adjective \o At \o calls[1].noun \o At \o calls[1].token

----------------------------------------------------------------------------
(* C10 *)

\* the ranges a call asks of the rng, in order
ExpectedRanges(c) ==
  LET count == Len(AlphabetChars(c.tokens))
  IN (IF adjectives # <<>> THEN <<Len(adjectives)>> ELSE <<>>)
     \o (IF nouns # <<>> THEN <<Len(nouns)>> ELSE <<>>)
     \o (IF count > 0 THEN [i \in 1..token_length |-> count] ELSE <<>>)

\* C10 as stated: every call draws from the rng and leaves it in another state
C10_AsStated ==
  \A c \in AllCalls : c.ranges # <<>> /\ c.rng_after # c.rng_before

\* C10, amended: a call draws once for the adjective if there are adjectives,
\* then once for the noun if there are nouns, then once per token character
\* if the alphabet has a char, each draw reading the next raw word of the
\* stream; it advances the rng by the number of its draws, which is none for
\* a configuration of no words and no token; and the state one call leaves is
\* the state the next starts from
C10_DrawsInOrder ==
  /\ \A c \in AllCalls :
       /\ c.ranges = ExpectedRanges(c)
       /\ c.rng_after = c.rng_before + Len(c.ranges)
       /\ c.rng_after <= Len(stream)
       /\ Len(c.picks) = Len(c.ranges)
       /\ \A k \in 1..Len(c.ranges) :
            c.picks[k] = GenRange(stream[c.rng_before + k], c.ranges[k])
       /\ adjectives # <<>> => c.adjective = adjectives[c.picks[1] + 1]
       /\ nouns # <<>> =>
            c.noun = nouns[c.picks[IF adjectives # <<>> THEN 2 ELSE 1] + 1]
       /\ c.token_picks = SubSeq(c.picks, Len(c.picks) - Len(c.token_picks) + 1,
                                 Len(c.picks))
  /\ \A i \in 1..(Len(calls) - 1) : calls[i + 1].rng_before = calls[i].rng_after
  /\ calls # <<>> => rng = calls[Len(calls)].rng_after
  /\ calls = <<>> => rng = SeededRng

\* two calls in a row, each drawing an adjective and then a hex digit
C10_Witness ==
  /\ Len(calls) = 2 /\ nouns = <<>>
  /\ calls[1].ranges = <<Len(adjectives), Len(HexDigits)>>
  /\ calls[1].rng_before = 0 /\ calls[1].rng_after = 2
  /\ calls[2].rng_before = 2 /\ calls[2].rng_after = 4
  /\ calls[1].picks # calls[2].picks

====
